---- MODULE Spec2Model ----
(***************************************************************************)
(* A model of the coffee-traceability ledger: Block and Blockchain of      *)
(* src/backend/blockchain/blockchain.py (the persistent ledger) and of     *)
(* src/blockchain.py (the in-memory ledger the examples use).              *)
(*                                                                         *)
(* Python objects are modelled with their identity: a block's data field   *)
(* is a reference into heap, the sequence of the process's dict objects,   *)
(* because Block.__init__ stores the caller's mapping and does not copy it.*)
(* A dict is the sequence of its <<key, value>> pairs in insertion order.  *)
(*                                                                         *)
(* SHA-256 is modelled as an ideal hash: a digest is the pair of its       *)
(* preimage (so two digests are equal exactly when the hashed texts are)   *)
(* and of the number its first HashDigits digits spell, a fixed        *)
(* pseudo-random function of the preimage.                                 *)
(***************************************************************************)
EXTENDS Integers, Sequences, FiniteSets, TLC

VARIABLES
    chain,       \* Blockchain.chain: the sequence of Block objects
    heap,        \* the dict objects of the process, by identity
    difficulty,  \* Blockchain.difficulty
    file,        \* the content of storage_path
    clock,       \* the last value datetime.now() returned
    loaded,      \* how __init__ got the chain: "genesis", "ok", "failed" (load_from_file's dropped return value)
    result,      \* what the last add_entry call returned
    probe,       \* what the last call, tampering, round trip or load saw
    used,        \* how many tamperings, restarts and successful appends there were
    pc,          \* per thread: its position in add_entry
    loc,         \* per thread: the locals of its add_entry call
    db,          \* the Database: its db_type and the rows of blockchain_index
    backups      \* the files of the backup directory, by path

vars == <<chain, heap, difficulty, file, clock, loaded, result, probe, used, pc, loc,
         db, backups>>

----------------------------------------------------------------------------
(* Bounds of the model *)

\* the longest chain an append may produce (genesis included)
MaxBlocks == 3
\* datetime.now() takes the values 0..MaxTime
MaxTime == 1
\* the leading digits of a digest that the model keeps (64 in all)
HashDigits == 2
\* the values a digit of a digest takes: 16 for hexdigest(); the model keeps
\* fewer, as proof_of_work tries about DigitBase ^ difficulty nonces
DigitBase == 3
\* in-memory tamperings and file tamperings per behaviour
MaxTampers == 1
\* process restarts per behaviour
MaxRestarts == 1
\* the threads that call add_entry at the same time
NumThreads == 2
\* the largest nonce a candidate is handed to proof_of_work with
MaxIncomingNonce == 2
\* the last clock value at which a backup is made, and the clock values that
\* fall into one second of strftime('%Y%m%d_%H%M%S')
MaxBackupTime == 3
TicksPerSecond == 2

(* Program constants *)

\* Blockchain.__init__: self.difficulty = 2
InitialDifficulty == 2

----------------------------------------------------------------------------
(* Strings *)

\* datetime.now().isoformat() at clock value t
IsoFormat(t) == <<"T0", "T1", "T2", "T3", "T4", "T5", "T6", "T7", "T8", "T9">>[t + 1]

\* the bytes of the strings of the model, as far as a digest depends on them
StrCodes ==
    [s \in {"T0", "T1", "T2", "T3", "T4", "T5", "T6", "T7", "T8", "T9"} |->
        CHOOSE t \in 0..9 : IsoFormat(t) = s]
    @@ ("coffee_batch" :> 11) @@ ("entry_timestamp" :> 12) @@ ("entry_type" :> 13)
    @@ ("message" :> 14) @@ ("origin" :> 15) @@ ("quality_grade" :> 16)
    @@ ("type" :> 17) @@ ("genesis" :> 18)
    @@ ("Coffee Traceability Blockchain Genesis Block" :> 19)
    @@ ("coffee_entry" :> 20) @@ ("BATCH-001" :> 21) @@ ("BATCH-002" :> 22)
    @@ ("Farm A" :> 23) @@ ("farm b" :> 24) @@ ("Farm B" :> 25)
    @@ ("A" :> 26) @@ ("AA" :> 27) @@ ("custom" :> 28)
    @@ ("BATCH-003" :> 29) @@ ("<None>" :> 30)
    @@ ("fiscalizer_id" :> 31) @@ ("fiscalizer_name" :> 32)
    @@ ("fiscalizer1" :> 33) @@ ("client1" :> 34)
    @@ ("Joao Silva" :> 35) @@ ("Carlos Souza" :> 36)

\* Python's None (JSON null) as a value of a dict: the one value of the model
\* that is not a str
PyNone == "<None>"

IsStr(v) == v # PyNone

\* str.lower() of the strings that are origins or origin queries
LowerCase ==
    ("Farm A" :> "farm a") @@ ("farm b" :> "farm b") @@ ("Farm B" :> "farm b")
    @@ ("FARM A" :> "farm a") @@ ("Farm" :> "farm") @@ ("" :> "")

Lower(s) == LowerCase[s]

StrCode(s) == StrCodes[s]

----------------------------------------------------------------------------
(* Python dicts: insertion-ordered sequences of <<key, value>> *)

DictKeys(d) == {d[i][1] : i \in 1..Len(d)}

DictHas(d, k) == k \in DictKeys(d)

DictGet(d, k) == d[CHOOSE i \in 1..Len(d) : d[i][1] = k][2]

\* d.get(k, default)
DictGetOr(d, k, default) == IF DictHas(d, k) THEN DictGet(d, k) ELSE default

\* d[k] = v: an existing key keeps its position, a new key goes last
DictSet(d, k, v) ==
    IF DictHas(d, k)
    THEN [i \in 1..Len(d) |-> IF d[i][1] = k THEN <<k, v>> ELSE d[i]]
    ELSE Append(d, <<k, v>>)

\* the keys the model uses, in sorted (code point) order
SortedKeys ==
    <<"coffee_batch", "entry_timestamp", "entry_type", "fiscalizer_id",
      "fiscalizer_name", "message", "origin", "quality_grade", "type">>

\* a json.dumps without sort_keys: the pairs in insertion order
SortKeys_InsertionOrder(d) == d

\* json.dumps(..., sort_keys=True) of a dict: its pairs in key order
SortKeys(d) ==
    LET F[i \in 0..Len(SortedKeys)] ==
            IF i = 0 THEN <<>>
            ELSE IF DictHas(d, SortedKeys[i])
                 THEN Append(F[i - 1], <<SortedKeys[i], DictGet(d, SortedKeys[i])>>)
                 ELSE F[i - 1]
    IN F[Len(SortedKeys)]

----------------------------------------------------------------------------
(* SHA-256 *)

HashSpace == DigitBase ^ HashDigits

\* a stride with no factor in common with HashSpace, so that the nonces
\* 0, 1, 2, ... visit every value of the leading digits
NonceStride == DigitBase + 1

RECURSIVE DataCode(_)
DataCode(pairs) ==
    IF pairs = <<>> THEN 0
    ELSE (Len(pairs) * (7 * StrCode(Head(pairs)[1]) + StrCode(Head(pairs)[2]))
          + 3 * DataCode(Tail(pairs))) % HashSpace

\* the leading HashDigits digits of the digest of a block text
LeadingDigits(text) ==
    (17 * text.index + 29 * StrCode(text.timestamp) + 31 * DataCode(text.data)
     + 37 * text.previous_hash.digits + NonceStride * text.nonce + 41) % HashSpace

\* hashlib.sha256(text).hexdigest()
Sha256(text) == [pre |-> <<text>>, digits |-> LeadingDigits(text)]

\* the string '0', the genesis block's previous_hash: one leading zero
ZeroString == [pre |-> <<>>, digits |-> DigitBase ^ (HashDigits - 1) - 1]

\* a startswith that is true of every string
StartsWithZeros_Always(h, d) == d <= HashDigits

\* h.startswith('0' * d)
StartsWithZeros(h, d) ==
    d <= HashDigits /\ h.digits < DigitBase ^ (HashDigits - d)

----------------------------------------------------------------------------
(* Block *)

\* Block.get_hash of block b, whose data is the dict object b.data of heap h
GetHash(b, h) ==
    Sha256([index |-> b.index, timestamp |-> b.timestamp,
            data |-> SortKeys(h[b.data]), previous_hash |-> b.previous_hash,
            nonce |-> b.nonce])

\* Block.__init__
NewBlock(index, timestamp, data, previous_hash, nonce, h) ==
    LET b == [index |-> index, timestamp |-> timestamp, data |-> data,
              previous_hash |-> previous_hash, nonce |-> nonce,
              hash |-> ZeroString]
    IN [b EXCEPT !.hash = GetHash(b, h)]

\* Block.to_dict: the mapping holds the block's data object itself, not a copy
ToDict(b) ==
    [index |-> b.index, timestamp |-> b.timestamp, data |-> b.data,
     previous_hash |-> b.previous_hash, nonce |-> b.nonce, hash |-> b.hash]

----------------------------------------------------------------------------
(* Blockchain: the pure parts *)

GenesisData ==
    << <<"type", "genesis">>,
       <<"message", "Coffee Traceability Blockchain Genesis Block">> >>

\* Blockchain.create_genesis_block at time t, on an empty chain: the chain and
\* the heap after it
CreateGenesisBlock(t, h) ==
    LET h1 == Append(h, GenesisData)
    IN [chain |-> <<NewBlock(0, IsoFormat(t), Len(h1), ZeroString, 0, h1)>>,
        heap |-> h1]

\* the loop of Blockchain.proof_of_work, from the block's current nonce
RECURSIVE NonceSearch(_, _, _)
NonceSearch(b, h, d) ==
    LET computed_hash == GetHash(b, h)
    IN IF StartsWithZeros(computed_hash, d)
       THEN [b EXCEPT !.hash = computed_hash]
       ELSE NonceSearch([b EXCEPT !.nonce = @ + 1], h, d)

\* a get_latest_block that returns chain[0]
GetLatestBlock_First(c) == c[1]

\* Blockchain.get_latest_block
GetLatestBlock(c) == c[Len(c)]

\* a proof_of_work that goes on from the nonce the candidate comes with
ProofOfWork_FromIncoming(b, h, d) == NonceSearch(b, h, d)

\* Blockchain.proof_of_work
ProofOfWork(b, h, d) == NonceSearch([b EXCEPT !.nonce = 0], h, d)

\* an is_valid_new_block that does not recompute the candidate's hash
IsValidNewBlock_NoRecompute(new_block, previous_block, h, d) ==
    /\ previous_block.index + 1 = new_block.index
    /\ previous_block.hash = new_block.previous_hash
    /\ StartsWithZeros(new_block.hash, d)

\* Blockchain.is_valid_new_block
IsValidNewBlock(new_block, previous_block, h, d) ==
    /\ previous_block.index + 1 = new_block.index
    /\ previous_block.hash = new_block.previous_hash
    /\ GetHash(new_block, h) = new_block.hash
    /\ StartsWithZeros(new_block.hash, d)

\* an is_chain_valid that looks at the last block only
IsChainValid_LastBlock(c, h, d) ==
    \A i \in {j \in 2..Len(c) : j = Len(c)} :
        /\ c[i].hash = GetHash(c[i], h)
        /\ c[i].previous_hash = c[i - 1].hash
        /\ StartsWithZeros(c[i].hash, d)

\* Blockchain.is_chain_valid: positions 2..Len(c) are Python's range(1, len)
IsChainValid(c, h, d) ==
    \A i \in 2..Len(c) :
        /\ c[i].hash = GetHash(c[i], h)
        /\ c[i].previous_hash = c[i - 1].hash
        /\ StartsWithZeros(c[i].hash, d)

\* a stamping that keeps what the dict has under the two keys (setdefault)
StampEntry_SetDefault(entry, t) ==
    LET e1 == IF DictHas(entry, "entry_timestamp") THEN entry
              ELSE DictSet(entry, "entry_timestamp", IsoFormat(t))
    IN IF DictHas(e1, "entry_type") THEN e1
       ELSE DictSet(e1, "entry_type", "coffee_entry")

\* the entry_data of add_entry after its two metadata assignments at time t
StampEntry(entry, t) ==
    DictSet(DictSet(entry, "entry_timestamp", IsoFormat(t)),
            "entry_type", "coffee_entry")

----------------------------------------------------------------------------
(* The storage file *)

BlockKeys == {"index", "timestamp", "data", "previous_hash", "nonce", "hash"}

\* one block record of a snapshot: to_dict's mapping and the keys it holds
FileRecord(b, h) ==
    [index |-> b.index, timestamp |-> b.timestamp, data |-> h[b.data],
     previous_hash |-> b.previous_hash, nonce |-> b.nonce, hash |-> b.hash,
     keys |-> BlockKeys]

NoFile == [kind |-> "absent", chain |-> <<>>, length |-> 0, difficulty |-> 0]

\* a file json.load cannot parse (also: a write that stopped part way)
Garbage == [kind |-> "garbage", chain |-> <<>>, length |-> 0, difficulty |-> 0]

\* the chain_data save_to_file builds (last_updated, which nothing reads, is
\* left out)
ChainData(c, h, d) ==
    [kind |-> "json", chain |-> [i \in 1..Len(c) |-> FileRecord(c[i], h)],
     length |-> Len(c), difficulty |-> d]

\* save_to_file: the file after it. "ok": written; "open_fails": open() raises
\* and the file stays; "write_fails": json.dump raises after open() truncated
SaveOutcomes == {"ok", "open_fails", "write_fails"}

SaveToFile(old, data, outcome) ==
    CASE outcome = "ok" -> data
      [] outcome = "open_fails" -> old
      [] OTHER -> Garbage

\* save_to_file's return value: True, or False after it swallowed the exception
SaveReturns(outcome) == outcome = "ok"

\* the loop of load_from_file over the block records: the chain, the heap and
\* whether every record was read (a record without one of the five keys
\* raises KeyError and ends the loop)
RECURSIVE LoadBlocks(_, _, _)
LoadBlocks(recs, c, h) ==
    IF recs = <<>> THEN [chain |-> c, heap |-> h, ok |-> TRUE]
    ELSE IF ~((BlockKeys \ {"hash"}) \subseteq Head(recs).keys)
         THEN [chain |-> c, heap |-> h, ok |-> FALSE]
         ELSE LET r == Head(recs)
                  h1 == Append(h, r.data)
                  b == NewBlock(r.index, r.timestamp, Len(h1), r.previous_hash,
                                r.nonce, h1)
              IN LoadBlocks(Tail(recs), Append(c, b), h1)

\* load_from_file on chain c0: the chain, the heap, the difficulty and the
\* value it returns. json.load raises before self.chain is touched; after it
\* the chain is rebuilt from nothing, and the dicts of the old chain are
\* garbage
LoadFromFile(f, c0, h, d) ==
    IF f.kind # "json"
    THEN [chain |-> c0, heap |-> h, difficulty |-> d, ok |-> FALSE]
    ELSE LET l == LoadBlocks(f.chain, <<>>, <<>>)
         IN [chain |-> l.chain, heap |-> l.heap,
             difficulty |-> IF l.ok THEN f.difficulty ELSE d, ok |-> l.ok]

----------------------------------------------------------------------------
(* The callers of the ledger *)

Threads == 1..NumThreads

\* datetime.now(): the clock does not run backwards and may stand still
\* between two calls
Now(c) == {t \in {c, c + 1} : t <= MaxTime}

\* request bodies: the caller has checked that the required fields are
\* there, not what their values are (the last body has "origin": null)
Payloads ==
    { << <<"coffee_batch", "BATCH-001">>, <<"origin", "Farm A">>,
         <<"quality_grade", "A">> >>,
      << <<"origin", "farm b">>, <<"coffee_batch", "BATCH-002">>,
         <<"quality_grade", "A">> >>,
      << <<"coffee_batch", "BATCH-003">>, <<"origin", PyNone>>,
         <<"quality_grade", "A">> >> }

\* the entry_data argument of add_entry: a new dict (obj 0), or a dict object
\* the caller still holds: one it passed before, or the data of a block view
EntryArgs(h) ==
    [obj : {0}, dict : Payloads] \cup [obj : 2..Len(h), dict : {<<>>}]

\* the heap with the argument in it, and the argument's identity
PassEntry(arg, h) ==
    IF arg.obj = 0
    THEN [heap |-> Append(h, arg.dict), obj |-> Len(h) + 1]
    ELSE [heap |-> h, obj |-> arg.obj]

NoResult == [op |-> "none", success |-> FALSE, raised |-> FALSE, block |-> <<>>]

\* add_entry's two return values, and the IndexError of get_latest_block
Added(b) ==
    [op |-> "add_entry", success |-> TRUE, raised |-> FALSE, block |-> <<ToDict(b)>>]

NotAdded == [op |-> "add_entry", success |-> FALSE, raised |-> FALSE, block |-> <<>>]

Raised == [op |-> "add_entry", success |-> FALSE, raised |-> TRUE, block |-> <<>>]

NoProbe == [op |-> "none"]

\* the locals of a thread in add_entry and save_to_file; before and alone
\* record the chain length, tip hash and file the call found, and whether no
\* other thread has appended or written since. For a thread that serves
\* POST /api/entries: the token of the request, what index_blockchain_entry
\* returned, and the status code of the response
NoLocals ==
    [entry_data |-> 0, latest_block |-> <<>>, new_block |-> <<>>,
     chain_data |-> NoFile, result |-> NoResult, before |-> <<>>, alone |-> TRUE,
     token |-> "none", indexed |-> "not called", status |-> 0]

AllIdle == \A t \in Threads : pc[t] = "idle"

\* a Database of the given db_type with an empty blockchain_index; app.py
\* constructs get_database(db_type='sqlite', ...)
NoRows(db_type) == [db_type |-> db_type, blockchain_index |-> <<>>]

\* the process has stopped: no thread runs and its memory is gone
Stopped == \A t \in Threads : pc[t] = "stopped"

----------------------------------------------------------------------------
(* add_entry, run from call to return with no other caller in between *)

\* the chain, heap, file and return value of add_entry(arg) on chain c, with
\* datetime.now() giving t1 then t2; saved is what save_to_file returned to
\* add_entry, which drops it
AddEntryOn(c, h, d, f, arg, t1, t2, outcome) ==
    LET latest_block == GetLatestBlock(c)
        p == PassEntry(arg, h)
        h1 == [p.heap EXCEPT ![p.obj] = StampEntry(@, t1)]
        new_block ==
            ProofOfWork(NewBlock(latest_block.index + 1, IsoFormat(t2), p.obj,
                                 latest_block.hash, 0, h1), h1, d)
    IN IF IsValidNewBlock(new_block, latest_block, h1, d)
       THEN LET c1 == Append(c, new_block)
            IN [chain |-> c1, heap |-> h1,
                file |-> SaveToFile(f, ChainData(c1, h1, d), outcome),
                result |-> Added(new_block),
                saved |-> IF SaveReturns(outcome) THEN "true" ELSE "false"]
       ELSE [chain |-> c, heap |-> h1, file |-> f, result |-> NotAdded,
             saved |-> "not called"]

AddEntry ==
    /\ AllIdle
    /\ Len(chain) < MaxBlocks /\ difficulty <= HashDigits
    /\ IF chain = <<>>
       THEN /\ result' = Raised
            /\ probe' = NoProbe
            /\ UNCHANGED <<chain, heap, file, clock>>
       ELSE \E arg \in EntryArgs(heap), t1 \in Now(clock), outcome \in SaveOutcomes :
              \E t2 \in Now(t1) :
                \E e \in {AddEntryOn(chain, heap, difficulty, file, arg, t1, t2, outcome)} :
                   /\ chain' = e.chain
                   /\ heap' = e.heap
                   /\ file' = e.file
                   /\ result' = e.result
                   /\ clock' = t2
                   /\ probe' = [op |-> "add_entry", saved |-> e.saved,
                                tip |-> chain[Len(chain)], length |-> Len(chain)]
    /\ used' = [used EXCEPT !.added = IF result'.success THEN @ + 1 ELSE @]
    /\ UNCHANGED <<difficulty, loaded, pc, loc>>
    /\ UNCHANGED <<db, backups>>

----------------------------------------------------------------------------
(* The ledger after Blockchain.__init__ with no file at storage_path *)

Init ==
    LET g == CreateGenesisBlock(0, <<>>)
    IN /\ chain = g.chain
       /\ heap = g.heap
       /\ difficulty = InitialDifficulty
       /\ file = ChainData(g.chain, g.heap, InitialDifficulty)
       /\ clock = 0
       /\ loaded = "genesis"
       /\ result = NoResult
       /\ probe = NoProbe
       /\ used = [tampers |-> 0, restarts |-> 0, added |-> 0]
       /\ pc = [t \in Threads |-> "idle"]
       /\ loc = [t \in Threads |-> NoLocals]
       /\ db = NoRows("sqlite")
       /\ backups = <<>>

\* one caller, appending
Next == AddEntry

Spec == Init /\ [][Next]_vars

\* request bodies that come with values under the keys add_entry sets
StampedBodies ==
    Payloads \cup
    { << <<"coffee_batch", "BATCH-001">>, <<"entry_type", "custom">>,
         <<"entry_timestamp", "custom">> >>,
      << <<"entry_timestamp", "custom">>, <<"coffee_batch", "BATCH-002">> >>,
      << <<"coffee_batch", "BATCH-003">>, <<"entry_type", "genesis">> >> }

\* add_entry with such a body, or with a dict the ledger has stamped before;
\* the time of the stamp is kept
AddEntryStamped ==
    /\ AllIdle
    /\ chain # <<>> /\ Len(chain) < MaxBlocks /\ difficulty <= HashDigits
    /\ \E arg \in [obj : {0}, dict : StampedBodies] \cup [obj : 2..Len(heap), dict : {<<>>}],
          t1 \in Now(clock), outcome \in SaveOutcomes :
         \E t2 \in Now(t1) :
           \E e \in {AddEntryOn(chain, heap, difficulty, file, arg, t1, t2, outcome)} :
              /\ chain' = e.chain
              /\ heap' = e.heap
              /\ file' = e.file
              /\ result' = e.result
              /\ clock' = t2
              /\ probe' = [op |-> "add_entry", saved |-> e.saved,
                           tip |-> chain[Len(chain)], length |-> Len(chain),
                           stamped_at |-> t1, arg |-> arg]
    /\ used' = [used EXCEPT !.added = IF result'.success THEN @ + 1 ELSE @]
    /\ UNCHANGED <<difficulty, loaded, pc, loc>>
    /\ UNCHANGED <<db, backups>>

NextStamp == AddEntryStamped

SpecStamp == Init /\ [][NextStamp]_vars

----------------------------------------------------------------------------
(* Queries *)

\* what a query returns: None, a list of block views, or the AttributeError
\* that leaves it
QueryNone == [kind |-> "None", list |-> <<>>]

QueryList(l) == [kind |-> "list", list |-> l]

QueryRaised == [kind |-> "AttributeError", list |-> <<>>]

\* [block.to_dict() for block in blocks]
ToDicts(blocks) == [i \in 1..Len(blocks) |-> ToDict(blocks[i])]

\* a get_entry_by_batch that returns the list it built, also when it is empty
GetEntryByBatch_EmptyList(c, h, batch_id) ==
    LET match(b) == DictGetOr(h[b.data], "coffee_batch", PyNone) = batch_id
    IN QueryList(ToDicts(SelectSeq(SubSeq(c, 2, Len(c)), match)))

\* Blockchain.get_entry_by_batch: the loop is over self.chain[1:]
GetEntryByBatch(c, h, batch_id) ==
    LET match(b) == DictGetOr(h[b.data], "coffee_batch", PyNone) = batch_id
        results == ToDicts(SelectSeq(SubSeq(c, 2, Len(c)), match))
    IN IF results # <<>> THEN QueryList(results) ELSE QueryNone

\* Blockchain.get_entry_by_origin: .lower() of a value that is not a str
\* raises AttributeError, which nothing catches
GetEntryByOrigin(c, h, origin) ==
    LET value(b) == DictGetOr(h[b.data], "origin", "")
        match(b) == Lower(value(b)) = Lower(origin)
        blocks == SubSeq(c, 2, Len(c))
    IN IF \E i \in 1..Len(blocks) : ~IsStr(value(blocks[i]))
       THEN QueryRaised
       ELSE LET results == ToDicts(SelectSeq(blocks, match))
            IN IF results # <<>> THEN QueryList(results) ELSE QueryNone

\* the batch ids and origins that are asked for
BatchIds == {"BATCH-001", "BATCH-002", "MISSING"}

Origins == {"Farm B", "FARM A", "Farm"}

QueryBatch ==
    /\ AllIdle
    /\ \E batch_id \in BatchIds :
         probe' = [op |-> "get_entry_by_batch", arg |-> batch_id,
                   returned |-> GetEntryByBatch(chain, heap, batch_id)]
    /\ UNCHANGED <<chain, heap, difficulty, file, clock, loaded, result, used, pc, loc>>
    /\ UNCHANGED <<db, backups>>

QueryOrigin ==
    /\ AllIdle
    /\ \E origin \in Origins :
         probe' = [op |-> "get_entry_by_origin", arg |-> origin,
                   returned |-> GetEntryByOrigin(chain, heap, origin)]
    /\ UNCHANGED <<chain, heap, difficulty, file, clock, loaded, result, used, pc, loc>>
    /\ UNCHANGED <<db, backups>>

\* one caller, appending and asking
NextQuery == AddEntry \/ QueryBatch \/ QueryOrigin

SpecQuery == Init /\ [][NextQuery]_vars

----------------------------------------------------------------------------
(* Tampering: a field of a committed block is assigned in memory *)

BlockFieldNames == {"index", "timestamp", "data", "previous_hash", "nonce", "hash"}

\* a digest of sixty-four zeros, which no block text of the model hashes to
ForgedHash == [pre |-> <<>>, digits |-> 0]

\* the chain and heap after the field of chain[i] is given another value; the
\* data is changed in place, as example_tamper_detection does
TamperField(c, h, i, field) ==
    CASE field = "index" ->
            [chain |-> [c EXCEPT ![i].index = @ + 1], heap |-> h]
      [] field = "timestamp" ->
            [chain |-> [c EXCEPT ![i].timestamp = "custom"], heap |-> h]
      [] field = "data" ->
            [chain |-> c,
             heap |-> [h EXCEPT ![c[i].data] = DictSet(@, "quality_grade", "AA")]]
      [] field = "previous_hash" ->
            [chain |-> [c EXCEPT ![i].previous_hash = ForgedHash], heap |-> h]
      [] field = "nonce" ->
            [chain |-> [c EXCEPT ![i].nonce = @ + 1], heap |-> h]
      [] OTHER ->
            [chain |-> [c EXCEPT ![i].hash = ForgedHash], heap |-> h]

\* the fields of the block at position i, its data by content
FieldsAt(c, h, i) ==
    [index |-> c[i].index, timestamp |-> c[i].timestamp, data |-> h[c[i].data],
     previous_hash |-> c[i].previous_hash, nonce |-> c[i].nonce, hash |-> c[i].hash]

Tamper ==
    /\ AllIdle
    /\ used.tampers < MaxTampers
    /\ \E i \in 1..Len(chain), field \in BlockFieldNames :
         \E m \in {TamperField(chain, heap, i, field)} :
            /\ FieldsAt(m.chain, m.heap, i) # FieldsAt(chain, heap, i)
            /\ chain' = m.chain
            /\ heap' = m.heap
            /\ probe' = [op |-> "tamper", position |-> i, field |-> field,
                         others_kept |->
                            \A j \in (1..Len(chain)) \ {i} :
                                FieldsAt(m.chain, m.heap, j) = FieldsAt(chain, heap, j)]
    /\ used' = [used EXCEPT !.tampers = @ + 1]
    /\ result' = NoResult
    /\ UNCHANGED <<difficulty, file, clock, loaded, pc, loc>>
    /\ UNCHANGED <<db, backups>>

\* one caller, appending, and a tamperer
NextTamper == AddEntry \/ Tamper

SpecTamper == Init /\ [][NextTamper]_vars

\* is_chain_valid() is called
CallIsChainValid ==
    /\ AllIdle
    /\ probe' = [op |-> "is_chain_valid",
                 returned |-> IsChainValid(chain, heap, difficulty)]
    /\ UNCHANGED <<chain, heap, difficulty, file, clock, loaded, result, used, pc, loc>>
    /\ UNCHANGED <<db, backups>>

\* a tamperer who also recomputes the hash: the nonce of a block is changed
\* and block.hash = block.get_hash() is assigned, with no proof of work
Rehash ==
    /\ AllIdle
    /\ used.tampers < MaxTampers
    /\ \E i \in 2..Len(chain) :
         \E b \in {[chain[i] EXCEPT !.nonce = @ + 1]} :
            chain' = [chain EXCEPT ![i] = [b EXCEPT !.hash = GetHash(b, heap)]]
    /\ used' = [used EXCEPT !.tampers = @ + 1]
    /\ probe' = NoProbe
    /\ result' = NoResult
    /\ UNCHANGED <<heap, difficulty, file, clock, loaded, pc, loc>>
    /\ UNCHANGED <<db, backups>>

NextValid == AddEntry \/ Tamper \/ Rehash \/ CallIsChainValid

SpecValid == Init /\ [][NextValid]_vars

----------------------------------------------------------------------------
(* The caller changes the block view add_entry returned *)

\* the caller assigns to the view result['block']: to a key of the mapping
\* to_dict built ("index"), or to a key of the mapping under its 'data'
\* ("data"), which is the data object of the block
MutateView ==
    /\ AllIdle
    /\ used.tampers < MaxTampers
    /\ result.op = "add_entry" /\ result.success
    /\ \E part \in {"index", "data"} :
         /\ IF part = "index"
            THEN /\ result' = [result EXCEPT !.block[1].index = @ + 1]
                 /\ heap' = heap
            ELSE /\ heap' = [heap EXCEPT ![result.block[1].data] =
                                 DictSet(@, "quality_grade", "AA")]
                 /\ result' = result
         /\ probe' = [op |-> "mutate_view", part |-> part,
                      fields |-> [i \in 1..Len(chain) |-> FieldsAt(chain, heap, i)],
                      valid |-> IsChainValid(chain, heap, difficulty)]
    /\ used' = [used EXCEPT !.tampers = @ + 1]
    /\ UNCHANGED <<chain, difficulty, file, clock, loaded, pc, loc>>
    /\ UNCHANGED <<db, backups>>

NextViews == AddEntry \/ MutateView

SpecViews == Init /\ [][NextViews]_vars

----------------------------------------------------------------------------
(* Persistence: explicit saves, damage to the file, and new processes *)

\* the digest of a block record of a snapshot, from its five hashed fields
RecordHash(r) ==
    Sha256([index |-> r.index, timestamp |-> r.timestamp, data |-> SortKeys(r.data),
            previous_hash |-> r.previous_hash, nonce |-> r.nonce])

\* something other than the ledger changes the file: it is truncated, a block
\* record loses a key, a stored hash is overwritten, or the file is removed
Damage ==
    /\ used.tampers < MaxTampers
    /\ file.kind = "json"
    /\ \/ file' = Garbage
       \/ \E i \in 1..Len(file.chain) :
            file' = [file EXCEPT !.chain[i].keys = @ \ {"nonce"}]
       \/ \E i \in 1..Len(file.chain) :
            /\ file.chain[i].hash # ForgedHash
            /\ file' = [file EXCEPT !.chain[i].hash = ForgedHash]
       \/ file' = NoFile
    /\ used' = [used EXCEPT !.tampers = @ + 1]
    /\ probe' = NoProbe
    /\ UNCHANGED <<chain, heap, difficulty, clock, loaded, result, pc, loc>>
    /\ UNCHANGED <<db, backups>>

\* whether some block record of snapshot f stores a hash that is not the
\* digest of its fields
StoredHashDiffers(f) ==
    /\ f.kind = "json"
    /\ \E i \in 1..Len(f.chain) :
         /\ BlockKeys \subseteq f.chain[i].keys
         /\ f.chain[i].hash # RecordHash(f.chain[i])

\* save_to_file() and then load_from_file(), called by the ledger's owner
Reload ==
    /\ AllIdle
    /\ used.restarts < MaxRestarts
    /\ \E outcome \in SaveOutcomes :
         \E f \in {SaveToFile(file, ChainData(chain, heap, difficulty), outcome)} :
         \E l \in {LoadFromFile(f, chain, heap, difficulty)} :
            /\ file' = f
            /\ chain' = l.chain
            /\ heap' = l.heap
            /\ difficulty' = l.difficulty
            /\ probe' = [op |-> "reload", ok |-> l.ok, saved |-> outcome = "ok",
                         fields |-> [i \in 1..Len(chain) |-> FieldsAt(chain, heap, i)],
                         valid |-> IsChainValid(chain, heap, difficulty),
                         hash_differs |-> StoredHashDiffers(f)]
    /\ used' = [used EXCEPT !.restarts = @ + 1]
    /\ result' = NoResult
    /\ UNCHANGED <<clock, loaded, pc, loc>>
    /\ UNCHANGED <<db, backups>>

\* Blockchain.__init__ in a new process: the memory of the old one is gone
Construct ==
    /\ AllIdle \/ Stopped
    /\ used.restarts < MaxRestarts
    /\ IF file.kind # "absent"
       THEN \E l \in {LoadFromFile(file, <<>>, <<>>, InitialDifficulty)} :
               /\ chain' = l.chain
               /\ heap' = l.heap
               /\ difficulty' = l.difficulty
               /\ loaded' = IF l.ok THEN "ok" ELSE "failed"
               /\ probe' = [op |-> "construct", ok |-> l.ok,
                            hash_differs |-> StoredHashDiffers(file)]
               /\ UNCHANGED <<file, clock>>
       ELSE \E t \in Now(clock), outcome \in SaveOutcomes :
              LET g == CreateGenesisBlock(t, <<>>)
              IN /\ chain' = g.chain
                 /\ heap' = g.heap
                 /\ difficulty' = InitialDifficulty
                 /\ loaded' = "genesis"
                 /\ file' = SaveToFile(file, ChainData(g.chain, g.heap, InitialDifficulty),
                                       outcome)
                 /\ clock' = t
                 /\ probe' = NoProbe
    /\ used' = [used EXCEPT !.restarts = @ + 1]
    /\ result' = NoResult
    /\ pc' = [t \in Threads |-> "idle"]
    /\ UNCHANGED loc
    /\ UNCHANGED <<db, backups>>

NextStore == AddEntry \/ Tamper \/ Reload \/ Damage \/ Construct

SpecStore == Init /\ [][NextStore]_vars

\* one caller, appending, and new processes on the same storage path
NextRestart == AddEntry \/ Construct

SpecRestart == Init /\ [][NextRestart]_vars

----------------------------------------------------------------------------
(* The in-memory ledger of src/blockchain.py: export_chain and import_chain *)

\* the chain_data export_chain writes: it has no difficulty (0 here), and
\* exported_at, which nothing reads, is left out
ExportData(c, h) ==
    [kind |-> "json", chain |-> [i \in 1..Len(c) |-> FileRecord(c[i], h)],
     length |-> Len(c), difficulty |-> 0]

\* an import_chain that keeps the imported chain when it is not valid
ImportChainOn_NoRestore(f, c0, h, d) ==
    IF f.kind # "json"
    THEN [chain |-> c0, heap |-> h, returned |-> FALSE]
    ELSE LET l == LoadBlocks(f.chain, <<>>, h)
         IN IF ~l.ok
            THEN [chain |-> c0, heap |-> h, returned |-> FALSE]
            ELSE [chain |-> l.chain, heap |-> l.heap,
                  returned |-> IsChainValid(l.chain, l.heap, d)]

\* import_chain(filename) on chain c0: the chain, the heap and the value it
\* returns. An exception (no file, no JSON, a record without a key) is caught
\* before self.chain is assigned; the blocks are built with the dicts json.load
\* made, next to the dicts the process has
ImportChainOn(f, c0, h, d) ==
    IF f.kind # "json"
    THEN [chain |-> c0, heap |-> h, returned |-> FALSE]
    ELSE LET l == LoadBlocks(f.chain, <<>>, h)
         IN IF ~l.ok
            THEN [chain |-> c0, heap |-> h, returned |-> FALSE]
            ELSE IF IsChainValid(l.chain, l.heap, d)
                 THEN [chain |-> l.chain, heap |-> l.heap, returned |-> TRUE]
                 ELSE [chain |-> c0, heap |-> h, returned |-> FALSE]

\* Blockchain.__init__ of src/blockchain.py: the genesis block, and no file
InitMemory ==
    LET g == CreateGenesisBlock(0, <<>>)
    IN /\ chain = g.chain
       /\ heap = g.heap
       /\ difficulty = InitialDifficulty
       /\ file = NoFile
       /\ clock = 0
       /\ loaded = "genesis"
       /\ result = NoResult
       /\ probe = NoProbe
       /\ used = [tampers |-> 0, restarts |-> 0, added |-> 0]
       /\ pc = [t \in Threads |-> "idle"]
       /\ loc = [t \in Threads |-> NoLocals]
       /\ db = NoRows("sqlite")
       /\ backups = <<>>

\* add_entry of src/blockchain.py: that of the persistent ledger without the
\* self.save_to_file() statement
AddEntryInMemory ==
    /\ AllIdle
    /\ chain # <<>> /\ Len(chain) < MaxBlocks /\ difficulty <= HashDigits
    /\ \E arg \in EntryArgs(heap), t1 \in Now(clock) :
         \E t2 \in Now(t1) :
           \E e \in {AddEntryOn(chain, heap, difficulty, file, arg, t1, t2, "ok")} :
              /\ chain' = e.chain
              /\ heap' = e.heap
              /\ result' = e.result
              /\ clock' = t2
    /\ used' = [used EXCEPT !.added = IF result'.success THEN @ + 1 ELSE @]
    /\ probe' = NoProbe
    /\ UNCHANGED <<difficulty, file, loaded, pc, loc, db, backups>>

\* export_chain(filename)
ExportChain ==
    /\ AllIdle
    /\ \E outcome \in SaveOutcomes :
         file' = SaveToFile(file, ExportData(chain, heap), outcome)
    /\ file' # file
    /\ probe' = NoProbe
    /\ result' = NoResult
    /\ UNCHANGED <<chain, heap, difficulty, clock, loaded, used, pc, loc, db, backups>>

\* import_chain(filename)
ImportChain ==
    /\ AllIdle
    /\ used.restarts < MaxRestarts
    /\ \E r \in {ImportChainOn(file, chain, heap, difficulty)} :
         /\ chain' = r.chain
         /\ heap' = r.heap
         /\ probe' = [op |-> "import_chain", returned |-> r.returned,
                      before |-> [i \in 1..Len(chain) |-> FieldsAt(chain, heap, i)]]
    /\ used' = [used EXCEPT !.restarts = @ + 1]
    /\ result' = NoResult
    /\ UNCHANGED <<difficulty, file, clock, loaded, pc, loc, db, backups>>

NextImport == AddEntryInMemory \/ ExportChain \/ Damage \/ ImportChain

SpecImport == InitMemory /\ [][NextImport]_vars

\* the file import_chain is given is not one export_chain wrote as it is: its
\* first block records were taken out, or all of them
TrimExport ==
    /\ used.tampers < MaxTampers
    /\ file.kind = "json"
    /\ \E n \in 1..Len(file.chain) :
         file' = [file EXCEPT !.chain = SubSeq(file.chain, n + 1, Len(file.chain)),
                              !.length = Len(file.chain) - n]
    /\ used' = [used EXCEPT !.tampers = @ + 1]
    /\ probe' = NoProbe
    /\ UNCHANGED <<chain, heap, difficulty, clock, loaded, result, pc, loc>>
    /\ UNCHANGED <<db, backups>>

NextForeign == AddEntryInMemory \/ ExportChain \/ TrimExport \/ ImportChain

SpecForeign == InitMemory /\ [][NextForeign]_vars

----------------------------------------------------------------------------
(* The Database: the blockchain_index table or collection *)

\* a row of blockchain_index, as far as the ledger is concerned
IndexRow(batch_id, block_index, block_hash) ==
    [batch_id |-> batch_id, block_index |-> block_index, block_hash |-> block_hash]

\* the rows of d whose batch_id is not the given one, in their order
RowsWithout(rows, batch_id) ==
    SelectSeq(rows, LAMBDA r : r.batch_id # batch_id)

\* Database.index_blockchain_entry: the Database after it and what it
\* returns. fault: the statement raises for a reason outside the data (the
\* database is locked or gone). SQLite: INSERT OR REPLACE removes the row of
\* the same batch_id (UNIQUE) and fails on a NULL batch_id (NOT NULL).
\* MongoDB: insert_one fails on a batch_id the unique index already holds.
\* Every exception is caught and gives False
IndexBlockchainEntry(d, batch_id, block_index, block_hash, fault) ==
    LET rows == d.blockchain_index
        row == IndexRow(batch_id, block_index, block_hash)
        taken == \E i \in 1..Len(rows) : rows[i].batch_id = batch_id
    IN IF fault
       THEN [db |-> d, returned |-> FALSE]
       ELSE IF d.db_type = "mongodb"
            THEN IF taken
                 THEN [db |-> d, returned |-> FALSE]
                 ELSE [db |-> [d EXCEPT !.blockchain_index = Append(rows, row)],
                       returned |-> TRUE]
            ELSE IF ~IsStr(batch_id)
                 THEN [db |-> d, returned |-> FALSE]
                 ELSE [db |-> [d EXCEPT !.blockchain_index =
                                   Append(RowsWithout(rows, batch_id), row)],
                       returned |-> TRUE]

\* the batch ids a caller indexes
IndexedBatches == {"BATCH-001", "BATCH-002", PyNone}

\* Database(db_type) with either backend, next to a fresh ledger
InitDb ==
    LET g == CreateGenesisBlock(0, <<>>)
    IN /\ chain = g.chain
       /\ heap = g.heap
       /\ difficulty = InitialDifficulty
       /\ file = ChainData(g.chain, g.heap, InitialDifficulty)
       /\ clock = 0
       /\ loaded = "genesis"
       /\ result = NoResult
       /\ probe = NoProbe
       /\ used = [tampers |-> 0, restarts |-> 0, added |-> 0]
       /\ pc = [t \in Threads |-> "idle"]
       /\ loc = [t \in Threads |-> NoLocals]
       /\ db \in {NoRows("sqlite"), NoRows("mongodb")}
       /\ backups = <<>>

\* db.index_blockchain_entry(batch_id, block_index, block_hash, ...) is called
CallIndexBlockchainEntry ==
    /\ \E batch_id \in IndexedBatches, block_index \in 1..(MaxBlocks - 1),
          block_hash \in {ZeroString, ForgedHash}, fault \in BOOLEAN :
         \E r \in {IndexBlockchainEntry(db, batch_id, block_index, block_hash, fault)} :
            /\ db' = r.db
            /\ probe' = [op |-> "index_blockchain_entry", batch_id |-> batch_id,
                         block_index |-> block_index, block_hash |-> block_hash,
                         fault |-> fault, returned |-> r.returned]
    /\ UNCHANGED <<chain, heap, difficulty, file, clock, loaded, result, used, pc, loc,
                   backups>>

NextDb == CallIndexBlockchainEntry

SpecDb == InitDb /\ [][NextDb]_vars

----------------------------------------------------------------------------
(* The process stops inside add_entry *)

\* where a successful add_entry is when the process stops: before save_to_file
\* opens the file, after open(storage_path, 'w') and before json.dump has
\* written all of the snapshot, or after the with block has closed the file
CrashPoints == {"before_open", "after_open", "after_dump"}

\* the file the stopped process leaves: open(..., 'w') has emptied it, and
\* json.dump writes the snapshot piece by piece into it
CrashFile(old, data, point) ==
    CASE point = "before_open" -> old
      [] point = "after_open" -> Garbage
      [] OTHER -> data

\* add_entry runs up to the crash point and the process is gone
Crash ==
    /\ AllIdle
    /\ chain # <<>> /\ Len(chain) < MaxBlocks /\ difficulty <= HashDigits
    /\ \E arg \in EntryArgs(heap), t1 \in Now(clock), point \in CrashPoints :
         \E t2 \in Now(t1) :
           \E e \in {AddEntryOn(chain, heap, difficulty, file, arg, t1, t2, "ok")} :
              /\ e.result.success
              /\ file' = CrashFile(file, e.file, point)
              /\ probe' = [op |-> "crash", point |-> point, old |-> file,
                           new |-> e.file]
              /\ clock' = t2
    /\ chain' = <<>>
    /\ heap' = <<>>
    /\ pc' = [t \in Threads |-> "stopped"]
    /\ result' = NoResult
    /\ UNCHANGED <<difficulty, loaded, used, loc>>
    /\ UNCHANGED <<db, backups>>

\* one caller, appending; the process may stop in a call and be started again
NextCrash == AddEntry \/ Crash \/ Construct

SpecCrash == Init /\ [][NextCrash]_vars

----------------------------------------------------------------------------
(* add_entry called by several threads: its statements interleave *)

\* the other threads' calls are no longer alone
Disturb(l, t) ==
    [u \in Threads |-> IF u = t THEN l[u] ELSE [l[u] EXCEPT !.alone = FALSE]]

\* the call, and latest_block = self.get_latest_block()
Call(t) ==
    /\ pc[t] = "idle"
    /\ chain # <<>>
    /\ Len(chain) + Cardinality({u \in Threads : pc[u] # "idle"}) < MaxBlocks
    /\ \E arg \in EntryArgs(heap) :
         LET p == PassEntry(arg, heap)
         IN /\ heap' = p.heap
            /\ loc' = [loc EXCEPT ![t] =
                          [NoLocals EXCEPT !.entry_data = p.obj,
                                           !.latest_block = GetLatestBlock(chain),
                                           !.before = <<Len(chain),
                                                        GetLatestBlock(chain).hash,
                                                        file>>]]
    /\ pc' = [pc EXCEPT ![t] = "stamp"]
    /\ UNCHANGED <<chain, difficulty, file, clock, loaded, result, probe, used>>
    /\ UNCHANGED <<db, backups>>

\* entry_data['entry_timestamp'] = ...; entry_data['entry_type'] = ...
Stamp(t) ==
    /\ pc[t] = "stamp"
    /\ \E t1 \in Now(clock) :
         /\ heap' = [heap EXCEPT ![loc[t].entry_data] = StampEntry(@, t1)]
         /\ clock' = t1
    /\ pc' = [pc EXCEPT ![t] = "mine"]
    /\ UNCHANGED <<chain, difficulty, file, loaded, result, probe, used, loc>>
    /\ UNCHANGED <<db, backups>>

\* new_block = Block(...); new_block = self.proof_of_work(new_block)
Mine(t) ==
    /\ pc[t] = "mine"
    /\ difficulty <= HashDigits
    /\ \E t2 \in Now(clock) :
         /\ loc' = [loc EXCEPT ![t].new_block =
                        ProofOfWork(NewBlock(loc[t].latest_block.index + 1,
                                             IsoFormat(t2), loc[t].entry_data,
                                             loc[t].latest_block.hash, 0, heap),
                                    heap, difficulty)]
         /\ clock' = t2
    /\ pc' = [pc EXCEPT ![t] = "validate"]
    /\ UNCHANGED <<chain, heap, difficulty, file, loaded, result, probe, used>>
    /\ UNCHANGED <<db, backups>>

\* an add_entry that appends the candidate before it looks at the verdict
Validate_AppendsFirst(t) ==
    /\ pc[t] = "validate"
    /\ IF IsValidNewBlock(loc[t].new_block, loc[t].latest_block, heap, difficulty)
       THEN /\ pc' = [pc EXCEPT ![t] = "append"]
            /\ loc' = loc
            /\ chain' = chain
       ELSE /\ pc' = [pc EXCEPT ![t] = "done"]
            /\ loc' = [loc EXCEPT ![t].result = NotAdded]
            /\ chain' = Append(chain, loc[t].new_block)
    /\ UNCHANGED <<heap, difficulty, file, clock, loaded, result, probe, used>>
    /\ UNCHANGED <<db, backups>>

\* if self.is_valid_new_block(new_block, latest_block): ... else: return
Validate(t) ==
    /\ pc[t] = "validate"
    /\ IF IsValidNewBlock(loc[t].new_block, loc[t].latest_block, heap, difficulty)
       THEN /\ pc' = [pc EXCEPT ![t] = "append"]
            /\ loc' = loc
       ELSE /\ pc' = [pc EXCEPT ![t] = "done"]
            /\ loc' = [loc EXCEPT ![t].result = NotAdded]
    /\ UNCHANGED <<chain, heap, difficulty, file, clock, loaded, result, probe, used>>
    /\ UNCHANGED <<db, backups>>

\* self.chain.append(new_block)
Commit(t) ==
    /\ pc[t] = "append"
    /\ chain' = Append(chain, loc[t].new_block)
    /\ used' = [used EXCEPT !.added = @ + 1]
    /\ loc' = Disturb(loc, t)
    /\ pc' = [pc EXCEPT ![t] = "save"]
    /\ UNCHANGED <<heap, difficulty, file, clock, loaded, result, probe>>
    /\ UNCHANGED <<db, backups>>

\* save_to_file: chain_data = {...}
BuildChainData(t) ==
    /\ pc[t] = "save"
    /\ loc' = [loc EXCEPT ![t].chain_data = ChainData(chain, heap, difficulty)]
    /\ pc' = [pc EXCEPT ![t] = "write"]
    /\ UNCHANGED <<chain, heap, difficulty, file, clock, loaded, result, probe, used>>
    /\ UNCHANGED <<db, backups>>

\* save_to_file: open() and json.dump(), and the mapping add_entry returns
WriteFile(t) ==
    /\ pc[t] = "write"
    /\ \E outcome \in SaveOutcomes :
         file' = SaveToFile(file, loc[t].chain_data, outcome)
    /\ loc' = [Disturb(loc, t) EXCEPT ![t].result = Added(loc[t].new_block)]
    /\ pc' = [pc EXCEPT ![t] = "done"]
    /\ UNCHANGED <<chain, heap, difficulty, clock, loaded, result, probe, used>>
    /\ UNCHANGED <<db, backups>>

\* the caller has the return value
Return(t) ==
    /\ pc[t] = "done"
    /\ result' = loc[t].result
    /\ loc' = [loc EXCEPT ![t] = NoLocals]
    /\ pc' = [pc EXCEPT ![t] = "idle"]
    /\ UNCHANGED <<chain, heap, difficulty, file, clock, loaded, probe, used>>
    /\ UNCHANGED <<db, backups>>

NextThreads ==
    \E t \in Threads :
        \/ Call(t)
        \/ Stamp(t)
        \/ Mine(t)
        \/ Validate(t)
        \/ Commit(t)
        \/ BuildChainData(t)
        \/ WriteFile(t)
        \/ Return(t)

SpecThreads == Init /\ [][NextThreads]_vars

\* Blockchain.get_all_entries
GetAllEntries(c) == ToDicts(SubSeq(c, 2, Len(c)))

\* a reader's call of get_all_entries while the threads are in add_entry; it
\* takes no lock. The first read of a behaviour is the one observed: with what
\* it returned, the blocks that appends in progress had put into the chain and
\* not yet written to the file
ReadAllEntries ==
    /\ probe = NoProbe
    /\ probe' = [op |-> "get_all_entries",
                 returned |-> GetAllEntries(chain),
                 appending |-> {loc[t].new_block :
                                   t \in {u \in Threads : pc[u] \in {"save", "write"}}}]
    /\ UNCHANGED <<chain, heap, difficulty, file, clock, loaded, result, used, pc, loc>>
    /\ UNCHANGED <<db, backups>>

NextReads == NextThreads \/ ReadAllEntries

SpecReads == Init /\ [][NextReads]_vars

----------------------------------------------------------------------------
(* is_valid_new_block on pairs of a candidate and a tip *)

\* the dict objects the blocks of the pairs refer to: the genesis dict and a
\* stamped entry
PairHeap ==
    Append(CreateGenesisBlock(0, <<>>).heap,
           StampEntry(CHOOSE p \in Payloads : DictGet(p, "coffee_batch") = "BATCH-001", 0))

\* tips: the genesis block, and the block add_entry mines on it
PairTips(d) ==
    LET g == CreateGenesisBlock(0, <<>>).chain[1]
    IN {g, ProofOfWork(NewBlock(1, IsoFormat(0), Len(PairHeap), g.hash, 0, PairHeap),
                       PairHeap, d)}

\* candidates for a tip: Block objects of either index, either previous_hash
\* and every nonce, as Block.__init__ makes them and with the hash attribute
\* assigned afterwards
PairCandidates(tip) ==
    UNION { LET b == NewBlock(i, IsoFormat(0), Len(PairHeap), ph, n, PairHeap)
            IN {b, [b EXCEPT !.hash = ForgedHash]} :
            i \in {tip.index, tip.index + 1}, ph \in {tip.hash, ForgedHash},
            n \in 0..(HashSpace - 1) }

InitPairs ==
    /\ chain = CreateGenesisBlock(0, <<>>).chain
    /\ heap = PairHeap
    /\ difficulty \in 1..HashDigits
    /\ file = NoFile
    /\ clock = 0
    /\ loaded = "genesis"
    /\ result = NoResult
    /\ \E tip \in PairTips(difficulty) :
         probe \in {[op |-> "pair", new_block |-> c, previous_block |-> tip] :
                    c \in PairCandidates(tip)}
    /\ used = [tampers |-> 0, restarts |-> 0, added |-> 0]
    /\ pc = [t \in Threads |-> "idle"]
    /\ loc = [t \in Threads |-> NoLocals]
    /\ db = NoRows("sqlite")
    /\ backups = <<>>

\* self.is_valid_new_block(new_block, previous_block) is called
CallIsValidNewBlock ==
    /\ probe.op = "pair"
    /\ probe' = [op |-> "is_valid_new_block", new_block |-> probe.new_block,
                 previous_block |-> probe.previous_block,
                 returned |-> IsValidNewBlock(probe.new_block, probe.previous_block,
                                              heap, difficulty)]
    /\ UNCHANGED <<chain, heap, difficulty, file, clock, loaded, result, used, pc, loc>>
    /\ UNCHANGED <<db, backups>>

NextPairs == CallIsValidNewBlock

SpecPairs == InitPairs /\ [][NextPairs]_vars

----------------------------------------------------------------------------
(* get_hash and proof_of_work on blocks whose payloads are dicts built in  *)
(* any order                                                                *)

\* the dicts that hold the pairs of d, in every insertion order
Orders(d) ==
    {s \in [1..Len(d) -> {d[i] : i \in 1..Len(d)}] :
        \A i, j \in 1..Len(d) : s[i] = s[j] => i = j}

\* the payloads of the blocks: the request bodies, built in any order
OrderedPayloads == UNION {Orders(d) : d \in Payloads}

InitBlocks ==
    /\ chain = CreateGenesisBlock(0, <<>>).chain
    /\ \E d1, d2 \in OrderedPayloads : heap = <<d1, d2>>
    /\ difficulty \in 1..HashDigits
    /\ file = NoFile
    /\ clock = 0
    /\ loaded = "genesis"
    /\ result = NoResult
    /\ \E index \in 1..2, nonce \in 0..MaxIncomingNonce :
         probe = [op |-> "blocks",
                  a |-> [index |-> index, timestamp |-> IsoFormat(0), data |-> 1,
                         previous_hash |-> chain[1].hash, nonce |-> nonce,
                         hash |-> ZeroString],
                  b |-> [index |-> index, timestamp |-> IsoFormat(0), data |-> 2,
                         previous_hash |-> chain[1].hash, nonce |-> nonce,
                         hash |-> ZeroString]]
    /\ used = [tampers |-> 0, restarts |-> 0, added |-> 0]
    /\ pc = [t \in Threads |-> "idle"]
    /\ loc = [t \in Threads |-> NoLocals]
    /\ db = NoRows("sqlite")
    /\ backups = <<>>

\* a.get_hash() and b.get_hash() are called
CallGetHash ==
    /\ probe.op = "blocks"
    /\ probe' = [op |-> "get_hash", a |-> probe.a, b |-> probe.b,
                 hash_a |-> GetHash(probe.a, heap),
                 hash_b |-> GetHash(probe.b, heap)]
    /\ UNCHANGED <<chain, heap, difficulty, file, clock, loaded, result, used, pc, loc>>
    /\ UNCHANGED <<db, backups>>

\* self.proof_of_work(a) is called, and once more on a block with a's fields
\* that comes with nonce 0
CallProofOfWork ==
    /\ probe.op = "blocks"
    /\ probe' = [op |-> "proof_of_work", block |-> probe.a,
                 returned |-> ProofOfWork(probe.a, heap, difficulty),
                 again |-> ProofOfWork([probe.a EXCEPT !.nonce = 0], heap, difficulty)]
    /\ UNCHANGED <<chain, heap, difficulty, file, clock, loaded, result, used, pc, loc>>
    /\ UNCHANGED <<db, backups>>

NextBlocks == CallGetHash \/ CallProofOfWork

SpecBlocks == InitBlocks /\ [][NextBlocks]_vars

----------------------------------------------------------------------------
(* create_backup *)

\* datetime.now().strftime('%Y%m%d_%H%M%S'): the time cut to whole seconds
StrfTime(t) == t \div TicksPerSecond

\* os.path.join(backup_dir, f'blockchain_backup_{timestamp}.json')
BackupPath(t) == <<"data/backups", "blockchain_backup", StrfTime(t)>>

\* the clock values datetime.now() may return at clock value c
BackupNow(c) == {t \in {c, c + 1} : t <= MaxBackupTime}

\* open(backup_path, 'w') and json.dump: the file of that path is made or
\* replaced
WriteBackup(files, path, content) ==
    IF \E k \in 1..Len(files) : files[k].path = path
    THEN [k \in 1..Len(files) |->
            IF files[k].path = path THEN [path |-> path, content |-> content]
            ELSE files[k]]
    ELSE Append(files, [path |-> path, content |-> content])

\* a create_backup that writes its copy to the storage path
CreateBackup_AtStoragePath ==
    /\ \E t1 \in BackupNow(clock), fault \in BOOLEAN :
         \E t2 \in BackupNow(t1) :
            /\ clock' = t2
            /\ IF fault
               THEN /\ file' = file
                    /\ probe' = [op |-> "create_backup", raised |-> TRUE]
               ELSE /\ file' = ChainData(chain, heap, difficulty)
                    /\ probe' = [op |-> "create_backup", raised |-> FALSE,
                                 returned |-> BackupPath(t1), before |-> backups]
    /\ UNCHANGED <<chain, heap, difficulty, backups, loaded, result, used, pc, loc, db>>

\* create_backup; os.makedirs and open are outside any try, so that a
\* failure of theirs leaves the call by an exception
CreateBackup ==
    /\ \E t1 \in BackupNow(clock), fault \in BOOLEAN :
         \E t2 \in BackupNow(t1) :
            /\ clock' = t2
            /\ IF fault
               THEN /\ backups' = backups
                    /\ probe' = [op |-> "create_backup", raised |-> TRUE]
               ELSE /\ backups' = WriteBackup(backups, BackupPath(t1),
                                              [chain_data |-> ChainData(chain, heap, difficulty),
                                               backup_created |-> IsoFormat(t2)])
                    /\ probe' = [op |-> "create_backup", raised |-> FALSE,
                                 returned |-> BackupPath(t1), before |-> backups]
    /\ UNCHANGED <<chain, heap, difficulty, file, loaded, result, used, pc, loc, db>>

NextBackup == AddEntry \/ CreateBackup

SpecBackup == Init /\ [][NextBackup]_vars

----------------------------------------------------------------------------
(* The operations that only read, called between add_entry calls *)

\* Blockchain.get_chain_info
GetChainInfo(c, h, d) ==
    [length |-> Len(c), difficulty |-> d, is_valid |-> IsChainValid(c, h, d),
     latest_block |-> ToDict(GetLatestBlock(c))]

CallGetChainInfo ==
    /\ AllIdle
    /\ chain # <<>>
    /\ probe' = [op |-> "get_chain_info",
                 returned |-> GetChainInfo(chain, heap, difficulty)]
    /\ UNCHANGED <<chain, heap, difficulty, file, clock, loaded, result, used, pc, loc>>
    /\ UNCHANGED <<db, backups>>

CallGetAllEntries ==
    /\ AllIdle
    /\ probe' = [op |-> "get_all_entries", returned |-> GetAllEntries(chain),
                 appending |-> {}]
    /\ UNCHANGED <<chain, heap, difficulty, file, clock, loaded, result, used, pc, loc>>
    /\ UNCHANGED <<db, backups>>

\* the operations whose calls the probe records as reads
ReadOps ==
    {"is_chain_valid", "get_entry_by_batch", "get_entry_by_origin",
     "get_all_entries", "get_chain_info", "create_backup"}

NextReadOnly ==
    \/ AddEntry
    \/ CallIsChainValid
    \/ QueryBatch
    \/ QueryOrigin
    \/ CallGetAllEntries
    \/ CallGetChainInfo
    \/ CreateBackup

SpecReadOnly == Init /\ [][NextReadOnly]_vars

----------------------------------------------------------------------------
(* POST /api/entries: create_entry behind token_required and           *)
(* fiscalizer_required, served by one thread per request                  *)

\* the Authorization header of a request: none, one without a space, a token
\* jwt.decode refuses (bad signature, expired), or the token login issued to
\* the user of that name
Tokens == {"none", "malformed", "invalid", "expired", "client1", "fiscalizer1"}

\* the users of _create_default_users_sqlite that the tokens belong to
Users ==
    ("fiscalizer1" :> [username |-> "fiscalizer1", role |-> "fiscalizer",
                       name |-> "Joao Silva"])
    @@ ("client1" :> [username |-> "client1", role |-> "client",
                      name |-> "Carlos Souza"])

\* a fiscalizer_required that lets every role through
FiscalizerRequired_Anyone(current_user) == TRUE

\* token_required: whether the wrapped function is called
TokenRequired(token) == token \in DOMAIN Users

\* fiscalizer_required: whether the wrapped function is called
FiscalizerRequired(current_user) == current_user.role = "fiscalizer"

\* the fields create_entry requires of a body, of those the model has
RequiredFields == {"coffee_batch", "origin", "quality_grade"}

\* request bodies: those of Payloads, none, and one without origin
Bodies == Payloads \cup {<<>>, << <<"coffee_batch", "BATCH-001">>, <<"quality_grade", "A">> >>}

\* the status code with which the request is answered before add_entry is
\* called, 0 when it is not
RefusalStatus(token, body) ==
    IF ~TokenRequired(token) THEN 401
    ELSE IF ~FiscalizerRequired(Users[token]) THEN 403
    ELSE IF body = <<>> THEN 400
    ELSE IF ~(RequiredFields \subseteq DictKeys(body)) THEN 400
    ELSE 0

\* data['fiscalizer_id'] = ...; data['fiscalizer_name'] = ...
WithFiscalizer(body, current_user) ==
    DictSet(DictSet(body, "fiscalizer_id", current_user.username),
            "fiscalizer_name", current_user.name)

\* what the client is told, with the chain length and the index rows the
\* request found
Response(token, status, length, rows) ==
    [op |-> "create_entry", token |-> token, status |-> status, length |-> length,
     rows |-> rows]

\* the request arrives: it is refused, or data = request.get_json() gets the
\* fiscalizer's name and add_entry is entered
Request(t) ==
    /\ pc[t] = "idle"
    /\ chain # <<>>
    /\ Len(chain) + Cardinality({u \in Threads : pc[u] # "idle"}) < MaxBlocks
    /\ \E token \in Tokens, body \in Bodies :
         IF RefusalStatus(token, body) # 0
         THEN /\ probe' = [Response(token, RefusalStatus(token, body), Len(chain),
                                       db.blockchain_index)
                              EXCEPT !.op = "refused"]
              /\ UNCHANGED <<heap, pc, loc>>
         ELSE /\ heap' = Append(heap, WithFiscalizer(body, Users[token]))
              /\ loc' = [loc EXCEPT ![t] =
                            [NoLocals EXCEPT !.entry_data = Len(heap) + 1,
                                             !.latest_block = GetLatestBlock(chain),
                                             !.before = <<Len(chain),
                                                          GetLatestBlock(chain).hash,
                                                          file>>,
                                             !.token = token]]
              /\ pc' = [pc EXCEPT ![t] = "stamp"]
              /\ probe' = probe
    /\ UNCHANGED <<chain, difficulty, file, clock, loaded, result, used, db, backups>>

\* an index step whose failure takes the block back and fails the request
IndexEntry_Transactional(t) ==
    /\ pc[t] = "done"
    /\ loc[t].result.success
    /\ \E fault \in BOOLEAN :
         \E r \in {IndexBlockchainEntry(db, DictGet(heap[loc[t].entry_data], "coffee_batch"),
                                         loc[t].result.block[1].index,
                                         loc[t].result.block[1].hash, fault)} :
            /\ db' = r.db
            /\ chain' = IF r.returned THEN chain
                         ELSE SelectSeq(chain, LAMBDA b : b # loc[t].new_block)
            /\ loc' = [loc EXCEPT ![t].indexed = IF r.returned THEN "true" ELSE "false",
                                  ![t].status = IF r.returned THEN 201 ELSE 500]
    /\ pc' = [pc EXCEPT ![t] = "respond"]
    /\ UNCHANGED <<heap, difficulty, file, clock, loaded, result, probe, used, backups>>

\* if result['success']: db.index_blockchain_entry(...); the value it returns
\* is dropped, and the response is 201
IndexEntry(t) ==
    /\ pc[t] = "done"
    /\ loc[t].result.success
    /\ \E fault \in BOOLEAN :
         \E r \in {IndexBlockchainEntry(db, DictGet(heap[loc[t].entry_data], "coffee_batch"),
                                         loc[t].result.block[1].index,
                                         loc[t].result.block[1].hash, fault)} :
            /\ db' = r.db
            /\ loc' = [loc EXCEPT ![t].indexed = IF r.returned THEN "true" ELSE "false",
                                  ![t].status = 201]
    /\ pc' = [pc EXCEPT ![t] = "respond"]
    /\ UNCHANGED <<chain, heap, difficulty, file, clock, loaded, result, probe, used,
                   backups>>

\* return jsonify(result), 201 or, add_entry having refused, 400
Respond(t) ==
    /\ \/ pc[t] = "respond"
       \/ pc[t] = "done" /\ ~loc[t].result.success
    /\ probe' = Response(loc[t].token,
                         IF loc[t].result.success THEN loc[t].status ELSE 400,
                         loc[t].before[1], db.blockchain_index)
    /\ result' = loc[t].result
    /\ loc' = [loc EXCEPT ![t] = NoLocals]
    /\ pc' = [pc EXCEPT ![t] = "idle"]
    /\ UNCHANGED <<chain, heap, difficulty, file, clock, loaded, used, db, backups>>

NextApi ==
    \E t \in Threads :
        \/ Request(t)
        \/ Stamp(t)
        \/ Mine(t)
        \/ Validate(t)
        \/ Commit(t)
        \/ BuildChainData(t)
        \/ WriteFile(t)
        \/ IndexEntry(t)
        \/ Respond(t)

SpecApi == Init /\ [][NextApi]_vars

----------------------------------------------------------------------------
(* Properties *)

\* the k-th leading digit of a digest, k in 1..HashDigits
DigitAt(h, k) == (h.digits \div (DigitBase ^ (HashDigits - k))) % DigitBase

\* the six fields of a block, its data by content
BlockFields(b, h) ==
    [index |-> b.index, timestamp |-> b.timestamp, data |-> h[b.data],
     previous_hash |-> b.previous_hash, nonce |-> b.nonce, hash |-> b.hash]

\* C1. Linkage: after any sequence of add_entry calls on a fresh ledger, every
\* block but the genesis block carries the stored hash of its predecessor.
C1_Linkage ==
    \A i \in 2..Len(chain) : chain[i].previous_hash = chain[i - 1].hash

\* two appends have been committed, so two links exist
C1_Witness ==
    /\ Len(chain) = 3
    /\ result.success
    /\ chain[3].previous_hash = chain[2].hash

\* C2. Hash integrity: after any sequence of add_entry calls on a fresh ledger,
\* the stored hash of every block equals get_hash() over its current fields.
C2_HashIntegrity ==
    \A i \in 1..Len(chain) : chain[i].hash = GetHash(chain[i], heap)

\* C3. Append-only: a successful add_entry adds exactly one block at the end
\* and changes no field of a block already in the chain, whatever mapping
\* object it is given.
C3_AppendOnly ==
    [][(result'.op = "add_entry" /\ result'.success /\ result' # result)
        => /\ Len(chain') = Len(chain) + 1
           /\ \A i \in 1..Len(chain) :
                BlockFields(chain'[i], heap') = BlockFields(chain[i], heap)]_vars

\* C4. Serialized appends: whatever the interleaving of add_entry calls, no two
\* committed blocks were built against the same tip: block indices are unique
\* and every block carries the stored hash of its predecessor.
C4_AppendsSerialized ==
    /\ \A i, j \in 1..Len(chain) : i # j => chain[i].index # chain[j].index
    /\ \A i \in 2..Len(chain) : chain[i].previous_hash = chain[i - 1].hash

\* C5. Tamper detection: after a field of any committed block (the genesis
\* block included) was given another value, is_chain_valid returns false, and
\* the fields of the other blocks are what they were.
C5_TamperDetected ==
    probe.op = "tamper"
        => ~IsChainValid(chain, heap, difficulty) /\ probe.others_kept

\* C6. Rejected append: a call of add_entry whose candidate is_valid_new_block
\* refuses returns success = false and no block, and the chain length, the tip
\* hash and the file are what they were when it was called (no other call
\* having appended or written meanwhile).
C6_RejectedAppendKeepsState ==
    \A t \in Threads :
        (pc[t] = "done" /\ ~loc[t].result.success)
            => /\ loc[t].result = NotAdded
               /\ loc[t].alone =>
                    loc[t].before = <<Len(chain), GetLatestBlock(chain).hash, file>>

\* a call was refused while no other call appended or wrote
C6_Witness ==
    \E t \in Threads :
        /\ pc[t] = "done"
        /\ ~loc[t].result.success
        /\ loc[t].alone
        /\ ~IsValidNewBlock(loc[t].new_block, loc[t].latest_block, heap, difficulty)

\* C7. Sequential indices: after N successful add_entry calls on a fresh
\* ledger the chain has N + 1 blocks and the block at position i has index i.
C7_SequentialIndices ==
    /\ Len(chain) = used.added + 1
    /\ \A i \in 1..Len(chain) : chain[i].index = i - 1

\* two successful appends
C7_Witness ==
    /\ used.added = 2
    /\ Len(chain) = 3
    /\ chain[3].index = 2

\* C8. Round trip: save_to_file and then load_from_file give back a chain of
\* the same length whose blocks have the fields saved, the stored hash
\* included, and is_chain_valid returns what it returned before, for a valid
\* and for a tampered chain.
C8_RoundTrip ==
    (probe.op = "reload" /\ probe.saved)
        => /\ probe.ok
           /\ Len(chain) = Len(probe.fields)
           /\ \A i \in 1..Len(chain) : FieldsAt(chain, heap, i) = probe.fields[i]
           /\ IsChainValid(chain, heap, difficulty) = probe.valid

\* C9. Cross-check on load: a snapshot in which a block's stored hash is not
\* the digest of its stored fields is never loaded as a chain for which
\* is_chain_valid returns true.
C9_StoredHashChecked ==
    (probe.op \in {"reload", "construct"} /\ probe.hash_differs)
        => ~(probe.ok /\ IsChainValid(chain, heap, difficulty))

\* C10. Load fails closed: a ledger constructed from a file that load_from_file
\* could not read acknowledges no append.
C10_LoadFailsClosed ==
    loaded = "failed" => ~(result.op = "add_entry" /\ result.success)

\* C11. Save failure reported: when save_to_file fails inside add_entry, what
\* add_entry returns is not what it returns for a persisted append of the same
\* block, and the chain is one block longer than before the call.
C11_SaveFailureReported ==
    (probe.op = "add_entry" /\ probe.saved = "false")
        => /\ result # Added(chain[Len(chain)])
           /\ Len(chain) = probe.length + 1

\* C12. Persist before acknowledge: when add_entry has returned success, the
\* file holds the snapshot of the chain in memory: the same block records in
\* the same order, and its length.
C12_PersistBeforeAck ==
    (result.op = "add_entry" /\ result.success)
        => /\ file.kind = "json"
           /\ file.length = Len(chain)
           /\ file.chain = [i \in 1..Len(chain) |-> FileRecord(chain[i], heap)]

\* C13. Crash consistency: when the process stops at any step of add_entry or
\* of its save_to_file, and the file was a loadable snapshot before the call,
\* the file it leaves is loadable and is either that snapshot or the snapshot
\* with the new block.
C13_CrashConsistent ==
    (probe.op = "crash" /\ probe.old.kind = "json")
        => /\ LoadFromFile(file, <<>>, <<>>, InitialDifficulty).ok
           /\ file \in {probe.old, probe.new}

\* C14. is_valid_new_block(candidate, tip) returns true exactly when the
\* candidate's index is the tip's plus one, its previous_hash is the tip's
\* hash, its hash is get_hash() of its fields, and its hash starts with
\* difficulty zero digits; for every candidate and tip.
C14_ValidNewBlockIff ==
    probe.op = "is_valid_new_block"
        => (probe.returned
              <=> /\ probe.new_block.index = probe.previous_block.index + 1
                  /\ probe.new_block.previous_hash = probe.previous_block.hash
                  /\ probe.new_block.hash = GetHash(probe.new_block, heap)
                  /\ difficulty <= HashDigits
                  /\ \A k \in 1..difficulty : DigitAt(probe.new_block.hash, k) = 0)

\* a mined candidate on a mined tip was accepted
C14_Witness ==
    /\ probe.op = "is_valid_new_block"
    /\ probe.returned
    /\ probe.previous_block.index = 1
    /\ probe.new_block.index = 2

\* C15. A successful add_entry on a chain with tip T commits one block B with
\* B.index = T.index + 1 and B.previous_hash = T.hash, B is the new tip, and
\* the block view it returns has B's six fields.
C15_CommitsOnTip ==
    (probe.op = "add_entry" /\ result.success)
        => /\ Len(chain) = probe.length + 1
           /\ chain[Len(chain)].index = probe.tip.index + 1
           /\ chain[Len(chain)].previous_hash = probe.tip.hash
           /\ Len(result.block) = 1
           /\ BlockFields(result.block[1], heap) = BlockFields(chain[Len(chain)], heap)

\* a block was committed on a tip that is not the genesis block
C15_Witness ==
    /\ probe.op = "add_entry"
    /\ result.success
    /\ probe.tip.index = 1
    /\ probe.tip = chain[2]
    /\ result.block[1].index = 2

\* C16. Proof-of-work compliance: in every state reached from a fresh ledger
\* by add_entry calls, the hash of every block but the genesis block starts
\* with difficulty zero digits.
C16_PowCompliance ==
    \A i \in 2..Len(chain) :
        /\ difficulty <= HashDigits
        /\ \A k \in 1..difficulty : DigitAt(chain[i].hash, k) = 0

\* two mined blocks are in the chain, one of them found with a nonce above 0
C16_Witness ==
    /\ Len(chain) = 3
    /\ \E i \in 2..3 : chain[i].nonce > 0
    /\ \A i \in 2..3 : chain[i].hash.digits = 0

\* C17. The genesis block is mined: after construction of a fresh ledger,
\* chain[0] has previous_hash '0', the sentinel payload, and a hash that
\* starts with difficulty zero digits.
C17_GenesisMined ==
    /\ chain[1].previous_hash = ZeroString
    /\ heap[chain[1].data] = GenesisData
    /\ \A k \in 1..difficulty : DigitAt(chain[1].hash, k) = 0

\* C18. Lifecycle: after construction, from the file or with a new genesis
\* block, and in every later state, the chain is not empty, and unless a block
\* or the file was tampered with its first block is a genesis block.
C18_AlwaysActive ==
    /\ chain # <<>>
    /\ used.tampers = 0
         => chain[1].index = 0 /\ chain[1].previous_hash = ZeroString

\* the positions of the chain, the genesis block's excepted, whose block
\* satisfies P, and the k-th of them in chain order
Matching(P(_)) == {i \in 2..Len(chain) : P(heap[chain[i].data])}

Nth(idx, k) == CHOOSE i \in idx : Cardinality({j \in idx : j < i}) = k - 1

\* C19. get_entry_by_batch(batch_id) returns, in chain order, exactly the
\* views of the blocks after the genesis block whose data.coffee_batch is
\* batch_id, and None, not an empty list, when there is none.
C19_BatchQuery ==
    probe.op = "get_entry_by_batch"
        => LET has(d) == DictHas(d, "coffee_batch")
                           /\ DictGet(d, "coffee_batch") = probe.arg
               idx == Matching(has)
           IN IF idx = {}
              THEN probe.returned = QueryNone
              ELSE /\ probe.returned.kind = "list"
                   /\ Len(probe.returned.list) = Cardinality(idx)
                   /\ \A k \in 1..Cardinality(idx) :
                        BlockFields(probe.returned.list[k], heap)
                            = BlockFields(chain[Nth(idx, k)], heap)

\* a batch with two blocks was asked for
C19_Witness ==
    /\ probe.op = "get_entry_by_batch"
    /\ Len(chain) = 3
    /\ Len(probe.returned.list) = 2
    /\ probe.returned.list[1].index = 1
    /\ probe.returned.list[2].index = 2

\* C20. get_entry_by_origin(origin) returns exactly the views of the blocks
\* after the genesis block whose data.origin is a string equal to origin when
\* both are lowercased (a block whose origin only contains the query is not
\* returned), and None when there is none.
C20_OriginQuery ==
    probe.op = "get_entry_by_origin"
        => LET has(d) == /\ DictHas(d, "origin")
                         /\ IsStr(DictGet(d, "origin"))
                         /\ Lower(DictGet(d, "origin")) = Lower(probe.arg)
               idx == Matching(has)
           IN IF idx = {}
              THEN probe.returned = QueryNone
              ELSE /\ probe.returned.kind = "list"
                   /\ Len(probe.returned.list) = Cardinality(idx)
                   /\ \A k \in 1..Cardinality(idx) :
                        BlockFields(probe.returned.list[k], heap)
                            = BlockFields(chain[Nth(idx, k)], heap)

\* C21. import_chain replaces the chain and returns true exactly when the
\* file can be read and the chain built from it passes is_chain_valid; in
\* every other case it returns false and the chain is the one it was.
C21_ImportOnlyValid ==
    probe.op = "import_chain"
        => LET l == LoadBlocks(file.chain, <<>>, <<>>)
               passes == /\ file.kind = "json"
                         /\ l.ok
                         /\ IsChainValid(l.chain, l.heap, difficulty)
           IN /\ probe.returned <=> passes
              /\ probe.returned
                   => /\ Len(chain) = Len(l.chain)
                      /\ \A i \in 1..Len(chain) :
                           FieldsAt(chain, heap, i) = FieldsAt(l.chain, l.heap, i)
              /\ ~probe.returned
                   => /\ Len(chain) = Len(probe.before)
                      /\ \A i \in 1..Len(chain) :
                           FieldsAt(chain, heap, i) = probe.before[i]

\* an export made before the last append was imported and replaced the chain
C21_Witness ==
    /\ probe.op = "import_chain"
    /\ probe.returned
    /\ Len(probe.before) = 3
    /\ Len(chain) = 2

\* C23. Upsert: after any sequence of index_blockchain_entry calls the index
\* holds at most one entry per batch_id, and after a call for a batch_id (the
\* database being reachable) the entry of that batch_id carries the call's
\* block_index and block_hash.
C23_Upsert ==
    /\ \A i, j \in 1..Len(db.blockchain_index) :
         i # j => db.blockchain_index[i].batch_id # db.blockchain_index[j].batch_id
    /\ (probe.op = "index_blockchain_entry" /\ ~probe.fault /\ IsStr(probe.batch_id))
         => /\ probe.returned
            /\ \E i \in 1..Len(db.blockchain_index) :
                 db.blockchain_index[i]
                    = IndexRow(probe.batch_id, probe.block_index, probe.block_hash)

\* C22. Index consistency: after any create_entry requests, every index entry
\* (batch_id, block_index, block_hash) refers to a block that is in the chain
\* at position block_index, has that hash, and has that coffee_batch.
C22_IndexConsistent ==
    \A k \in 1..Len(db.blockchain_index) :
        LET r == db.blockchain_index[k]
        IN /\ r.block_index + 1 <= Len(chain)
           /\ chain[r.block_index + 1].hash = r.block_hash
           /\ DictGetOr(heap[chain[r.block_index + 1].data], "coffee_batch", PyNone)
                = r.batch_id

\* C24. Best-effort index: index_blockchain_entry is called only for an
\* append that returned success, and the call, failed or not, leaves the chain
\* and the file as they are and the response at 201.
C24_IndexBestEffort ==
    [][\A t \in Threads :
          (loc'[t].indexed # loc[t].indexed /\ loc'[t].indexed # "not called")
             => /\ loc[t].result.success
                /\ chain' = chain
                /\ file' = file
                /\ loc'[t].status = 201
                /\ loc'[t].result = loc[t].result]_vars

\* an index update failed for a committed block of the chain
C24_Witness ==
    \E t \in Threads :
        /\ pc[t] = "respond"
        /\ loc[t].indexed = "false"
        /\ loc[t].status = 201
        /\ \E i \in 2..Len(chain) : chain[i] = loc[t].new_block

\* C28. Only fiscalizers write: every request that got as far as add_entry
\* carried a valid fiscalizer token, every committed block carries a
\* fiscalizer's name, and a request that was refused with 401 or 403 left
\* the chain as long as it was and the index rows as they were.
C28_OnlyFiscalizersWrite ==
    /\ \A t \in Threads :
         pc[t] # "idle"
            => loc[t].token \in DOMAIN Users /\ Users[loc[t].token].role = "fiscalizer"
    /\ \A i \in 2..Len(chain) :
         \E u \in DOMAIN Users :
            /\ Users[u].role = "fiscalizer"
            /\ DictGetOr(heap[chain[i].data], "fiscalizer_id", PyNone) = u
    /\ (probe.op = "refused" /\ probe.status \in {401, 403}
          /\ \A t \in Threads : pc[t] = "idle")
         => Len(chain) = probe.length /\ db.blockchain_index = probe.rows

\* a client's request was refused after a fiscalizer's was served
C28_Witness ==
    /\ probe.op = "refused"
    /\ probe.token = "client1"
    /\ probe.status = 403
    /\ Len(chain) = 2
    /\ Len(db.blockchain_index) = 1

\* C25. Non-overwriting backups: the path create_backup returns differs from
\* the path of every earlier backup, and every backup file written by an
\* earlier call still has the content that call wrote.
C25_BackupNotOverwritten ==
    (probe.op = "create_backup" /\ ~probe.raised)
        => /\ \A k \in 1..Len(probe.before) : probe.before[k].path # probe.returned
           /\ \A k \in 1..Len(probe.before) :
                \E j \in 1..Len(backups) : backups[j] = probe.before[k]

\* C26. No read mid-append: what get_all_entries returns while add_entry
\* calls are running holds no block of an append that has put its block into
\* the chain and has not yet written the file.
C26_NoReadMidAppend ==
    probe.op = "get_all_entries"
        => \A b \in probe.appending :
              \A i \in 1..Len(probe.returned) : probe.returned[i] # ToDict(b)

\* C27. No exception crosses the engine boundary: in every state of the
\* ledger, also after a load that failed, add_entry returns a value and does
\* not raise.
C27_NoExceptions == ~(result.op = "add_entry" /\ result.raised)

\* C29. Canonical serialization: two blocks with equal index, timestamp,
\* previous_hash and nonce whose payloads hold the same key/value pairs,
\* inserted in whatever order, have the same get_hash.
C29_CanonicalHash ==
    (/\ probe.op = "get_hash"
     /\ {heap[1][i] : i \in 1..Len(heap[1])} = {heap[2][i] : i \in 1..Len(heap[2])})
        => probe.hash_a = probe.hash_b

\* two payloads with the same pairs in different orders were hashed
C29_Witness ==
    /\ probe.op = "get_hash"
    /\ heap[1] # heap[2]
    /\ {heap[1][i] : i \in 1..Len(heap[1])} = {heap[2][i] : i \in 1..Len(heap[2])}
    /\ heap[1][1][1] # heap[2][1][1]

\* the block text has d leading zero digits at nonce n
ZerosAt(b, n, d) ==
    \A k \in 1..d : DigitAt(GetHash([b EXCEPT !.nonce = n], heap), k) = 0

\* C30. proof_of_work returns the candidate with the least nonce, counted
\* from 0 whatever nonce the candidate came with, whose hash has difficulty
\* leading zeros; the hash it carries is its get_hash, its other fields are
\* the candidate's, and a run on a block with the same fields returns the
\* same nonce and hash.
C30_LeastNonce ==
    probe.op = "proof_of_work"
        => /\ ZerosAt(probe.block, probe.returned.nonce, difficulty)
           /\ \A n \in 0..(probe.returned.nonce - 1) : ~ZerosAt(probe.block, n, difficulty)
           /\ probe.returned.hash = GetHash(probe.returned, heap)
           /\ probe.returned = [probe.block EXCEPT !.nonce = probe.returned.nonce,
                                                   !.hash = probe.returned.hash]
           /\ probe.again = probe.returned

\* the search ended below the nonce the candidate came with, after a miss
C30_Witness ==
    /\ probe.op = "proof_of_work"
    /\ probe.returned.nonce > 0
    /\ probe.returned.nonce < probe.block.nonce

\* the three conditions of the block at position i (after the genesis block)
HashRecomputes(i) ==
    chain[i].hash = Sha256([index |-> chain[i].index,
                            timestamp |-> chain[i].timestamp,
                            data |-> SortKeys(heap[chain[i].data]),
                            previous_hash |-> chain[i].previous_hash,
                            nonce |-> chain[i].nonce])

LinksBack(i) == chain[i].previous_hash = chain[i - 1].hash

MeetsDifficulty(i) == \A k \in 1..difficulty : DigitAt(chain[i].hash, k) = 0

\* C31. is_chain_valid returns true exactly when every block after the
\* genesis block has a stored hash equal to the recomputed one, a
\* previous_hash equal to its predecessor's hash, and a hash with difficulty
\* leading zeros: one failing block at any position makes it false.
C31_ChainValidIff ==
    probe.op = "is_chain_valid"
        => (probe.returned
              <=> \A i \in 2..Len(chain) :
                     HashRecomputes(i) /\ LinksBack(i) /\ MeetsDifficulty(i))

\* the chain was found invalid for its middle block alone
C31_Witness ==
    /\ probe.op = "is_chain_valid"
    /\ ~probe.returned
    /\ Len(chain) = 3
    /\ ~HashRecomputes(2)
    /\ HashRecomputes(3) /\ LinksBack(3) /\ MeetsDifficulty(3)

\* C32. Stamping: the block add_entry has committed has, in its data and in
\* the text its hash was computed from, entry_type 'coffee_entry' and the
\* entry_timestamp of the call, whatever the caller had put under the two
\* keys; every block after the genesis block has the tag and a timestamp of
\* the ledger's clock.
C32_Stamped ==
    /\ \A i \in 2..Len(chain) :
         /\ DictGetOr(heap[chain[i].data], "entry_type", PyNone) = "coffee_entry"
         /\ DictGetOr(heap[chain[i].data], "entry_timestamp", PyNone)
              \in {IsoFormat(t) : t \in 0..MaxTime}
    /\ (probe.op = "add_entry" /\ result.success)
         => LET tip == chain[Len(chain)]
            IN /\ DictGet(heap[tip.data], "entry_timestamp") = IsoFormat(probe.stamped_at)
               /\ tip.hash.pre[1].data = SortKeys(heap[tip.data])

\* a body that came with both keys was committed at a later time
C32_Witness ==
    /\ probe.op = "add_entry"
    /\ result.success
    /\ probe.arg.obj = 0
    /\ DictGetOr(probe.arg.dict, "entry_type", PyNone) = "custom"
    /\ DictGetOr(probe.arg.dict, "entry_timestamp", PyNone) = "custom"
    /\ probe.stamped_at = 1
    /\ Len(chain) = 3

\* C33. Load all-or-nothing: after a load_from_file that failed on a block
\* record of a snapshot it could parse, the chain in memory is not a part
\* of the snapshot's blocks (the records before the one that could not be
\* read).
C33_LoadAllOrNothing ==
    (probe.op \in {"reload", "construct"} /\ ~probe.ok /\ file.kind = "json")
        => ~(0 < Len(chain) /\ Len(chain) < Len(file.chain))

\* C34. Monotonic durability: a step of add_entry or of a restart leaves in
\* the file, at its position, every block the file held before the step.
C34_DurabilityMonotonic ==
    [][\A i \in 1..Len(file.chain) :
          /\ i <= Len(file'.chain)
          /\ file'.chain[i].index = file.chain[i].index
          /\ file'.chain[i].hash = file.chain[i].hash]_vars

\* C35. No stale save: the write of an add_entry call's snapshot leaves in
\* the file every block that the file held, so that after overlapping calls
\* the file has the blocks all of them committed.
C35_NoStaleSave ==
    [][\A t \in Threads :
          (pc[t] = "write" /\ pc'[t] = "done" /\ file'.kind = "json")
             => \A k \in 1..Len(file.chain) :
                   \E j \in 1..Len(file'.chain) :
                      /\ file'.chain[j].index = file.chain[k].index
                      /\ file'.chain[j].hash = file.chain[k].hash]_vars

\* C36. Isolated views: after the caller changed the view add_entry returned,
\* its nested data mapping included, every committed block has the fields it
\* had and is_chain_valid returns what it returned.
C36_ViewsIsolated ==
    probe.op = "mutate_view"
        => /\ \A i \in 1..Len(chain) : FieldsAt(chain, heap, i) = probe.fields[i]
           /\ IsChainValid(chain, heap, difficulty) = probe.valid

C38_ImportWellFormed ==
    (probe.op = "import_chain" /\ probe.returned)
        => /\ chain # <<>>
           /\ \A i \in 1..Len(chain) : chain[i].index = i - 1

====
